---- MODULE Spec2Model ----
(***************************************************************************)
(* A model of the Audiobookshelf Library Tidy server (src/server.js): the  *)
(* scan handler (POST /api/scan), which walks a library, reads one         *)
(* metadata.json per item and plans the moves, and the execute handler     *)
(* (POST /api/execute), which replays plans with mkdir / access / rename / *)
(* readdir / rmdir.                                                        *)
(*                                                                         *)
(* A string is a sequence of one-character strings; a path is a sequence   *)
(* of names below the library root (the root itself is << >>).             *)
(***************************************************************************)
EXTENDS Integers, Sequences, FiniteSets, TLC

(***************************************************************************)
(* Characters and JavaScript string primitives                             *)
(***************************************************************************)
UpperSeq == <<"A","B","C","D","E","F","G","H","I","J","K","L","M",
              "N","O","P","Q","R","S","T","U","V","W","X","Y","Z">>
LowerSeq == <<"a","b","c","d","e","f","g","h","i","j","k","l","m",
              "n","o","p","q","r","s","t","u","v","w","x","y","z">>
DigitSeq == <<"0","1","2","3","4","5","6","7","8","9">>

Range(s) == {s[i] : i \in DOMAIN s}

Digits == Range(DigitSeq)
Uppers == Range(UpperSeq)
Lowers == Range(LowerSeq)
Puncts == {" ", "\"", "#", "'", "*", "+", ",", "-", ".", "/", ":", "<", ">", "?",
           "[", "\\", "]", "|"}
Alphabet == Digits \cup Uppers \cup Lowers \cup Puncts

\* The UTF-16 code unit of a character: what JavaScript's < on strings compares.
CodeOf ==
  [c \in Alphabet |->
     IF c \in Digits THEN 47 + (CHOOSE i \in DOMAIN DigitSeq : DigitSeq[i] = c)
     ELSE IF c \in Uppers THEN 64 + (CHOOSE i \in DOMAIN UpperSeq : UpperSeq[i] = c)
     ELSE IF c \in Lowers THEN 96 + (CHOOSE i \in DOMAIN LowerSeq : LowerSeq[i] = c)
     ELSE CASE c = " " -> 32 [] c = "\"" -> 34 [] c = "#" -> 35 [] c = "'" -> 39
            [] c = "[" -> 91 [] c = "]" -> 93 [] c = "*" -> 42
            [] c = "+" -> 43 [] c = "," -> 44 [] c = "-" -> 45 [] c = "." -> 46
            [] c = "/" -> 47 [] c = ":" -> 58 [] c = "<" -> 60 [] c = ">" -> 62
            [] c = "?" -> 63 [] c = "\\" -> 92 [] c = "|" -> 124]

LowerOf ==
  [c \in Alphabet |->
     IF c \in Uppers THEN LowerSeq[CHOOSE i \in DOMAIN UpperSeq : UpperSeq[i] = c]
     ELSE c]

\* String.prototype.toLowerCase
toLowerCase(s) == [i \in DOMAIN s |-> LowerOf[s[i]]]

\* The relational operator < on two strings: code units, left to right; a
\* proper prefix is less.
RECURSIVE StrLess(_, _)
StrLess(a, b) ==
  IF b = << >> THEN FALSE
  ELSE IF a = << >> THEN TRUE
  ELSE IF CodeOf[Head(a)] < CodeOf[Head(b)] THEN TRUE
  ELSE IF CodeOf[Head(a)] > CodeOf[Head(b)] THEN FALSE
  ELSE StrLess(Tail(a), Tail(b))

\* String.prototype.includes for a one-character needle
includes(s, c) == \E i \in DOMAIN s : s[i] = c

\* Index of the first occurrence of c in s (0 when there is none)
IndexOf(s, c) ==
  IF includes(s, c) THEN CHOOSE i \in DOMAIN s : s[i] = c /\ \A j \in 1..(i - 1) : s[j] # c
  ELSE 0

\* String.prototype.split for a one-character separator: every occurrence splits
RECURSIVE split(_, _)
split(s, c) ==
  LET i == IndexOf(s, c) IN
    IF i = 0 THEN <<s>>
    ELSE <<SubSeq(s, 1, i - 1)>> \o split(SubSeq(s, i + 1, Len(s)), c)

IsSpace(c) == c = " "

RECURSIVE trimStart(_)
trimStart(s) == IF s # << >> /\ IsSpace(Head(s)) THEN trimStart(Tail(s)) ELSE s

RECURSIVE trimEnd(_)
trimEnd(s) ==
  IF s # << >> /\ IsSpace(s[Len(s)]) THEN trimEnd(SubSeq(s, 1, Len(s) - 1)) ELSE s

\* String.prototype.trim
trim(s) == trimEnd(trimStart(s))

\* String.prototype.padStart(2, '0')
padStart2(s) ==
  IF Len(s) >= 2 THEN s ELSE IF Len(s) = 1 THEN <<"0">> \o s ELSE <<"0", "0">>

AllIn(s, S) == \A i \in DOMAIN s : s[i] \in S

\* An unsigned decimal literal: digits [. digits] | . digits, then an optional
\* exponent e[+-]digits
IsExponent(s) ==
  /\ s # << >>
  /\ s[1] \in {"e", "E"}
  /\ LET r == Tail(s)
         d == IF r # << >> /\ r[1] \in {"+", "-"} THEN Tail(r) ELSE r
     IN  d # << >> /\ AllIn(d, Digits)

IsUnsignedDecimal(s) ==
  \E i \in 0..Len(s), j \in 0..Len(s), k \in 0..Len(s) :
    /\ i <= j /\ j <= k
    /\ AllIn(SubSeq(s, 1, i), Digits)
    /\ \/ j = i
       \/ /\ j > i /\ s[i + 1] = "." /\ AllIn(SubSeq(s, i + 2, j), Digits)
    /\ (i > 0 \/ j > i + 1)
    /\ k = Len(s)
    /\ (j = k \/ IsExponent(SubSeq(s, j + 1, k)))

HexDigits == Digits \cup {"a","b","c","d","e","f","A","B","C","D","E","F"}

IsRadixLiteral(s) ==
  /\ Len(s) >= 3
  /\ s[1] = "0"
  /\ LET r == SubSeq(s, 3, Len(s)) IN
       \/ s[2] \in {"x", "X"} /\ AllIn(r, HexDigits)
       \/ s[2] \in {"o", "O"} /\ AllIn(r, {"0","1","2","3","4","5","6","7"})
       \/ s[2] \in {"b", "B"} /\ AllIn(r, {"0","1"})

\* The global isNaN applied to a string: Number(s) is NaN.  Whitespace is
\* trimmed and the empty string is 0.
Unsigned(t) == IF t # << >> /\ t[1] \in {"+", "-"} THEN Tail(t) ELSE t

IsNumeric(t) ==
  \/ t = << >>
  \/ IsRadixLiteral(t)
  \/ Unsigned(t) = <<"I","n","f","i","n","i","t","y">>
  \/ IsUnsignedDecimal(Unsigned(t))

isNaN(s) == ~IsNumeric(trim(s))

RECURSIVE StripZeros(_)
StripZeros(d) == IF Len(d) > 1 /\ Head(d) = "0" THEN StripZeros(Tail(d)) ELSE d

\* String(parseInt(s)): the leading run of digits after optional whitespace and
\* sign, without its leading zeros; "NaN" when there is none.  (Digit runs here
\* are far below 2^53, where parseInt is exact and prints in plain decimal.)
RECURSIVE DigitPrefix(_)
DigitPrefix(s) ==
  IF s # << >> /\ Head(s) \in Digits THEN <<Head(s)>> \o DigitPrefix(Tail(s)) ELSE << >>

SignedDigits(neg, d) ==
  IF d = << >> THEN <<"N","a","N">>
  ELSE IF neg /\ StripZeros(d) # <<"0">> THEN <<"-">> \o StripZeros(d)
  ELSE StripZeros(d)

ParseTrimmed(t) == SignedDigits(t # << >> /\ t[1] = "-", DigitPrefix(Unsigned(t)))

parseIntStr(s) == ParseTrimmed(trimStart(s))

RECURSIVE IntToStr(_)
\* String(n) for an integer n >= 0
IntToStr(n) ==
  IF n < 10 THEN <<DigitSeq[n + 1]>> ELSE IntToStr(n \div 10) \o <<DigitSeq[(n % 10) + 1]>>

RECURSIVE JoinWith(_, _)
\* Array.prototype.join on an array of strings
JoinWith(parts, sep) ==
  IF parts = << >> THEN << >>
  ELSE IF Len(parts) = 1 THEN parts[1]
  ELSE parts[1] \o sep \o JoinWith(Tail(parts), sep)

(***************************************************************************)
(* Utility functions of server.js                                          *)
(***************************************************************************)
RECURSIVE NonDigitPrefix(_)
NonDigitPrefix(s) ==
  IF s # << >> /\ Head(s) \notin Digits THEN <<Head(s)>> \o NonDigitPrefix(Tail(s))
  ELSE << >>

\* String(s).split(/(\d+)/): the non-digit runs and the digit runs, alternating;
\* the first and the last part are non-digit runs, possibly empty.
RECURSIVE SplitDigitRuns(_)
SplitDigitRuns(s) ==
  LET a == NonDigitPrefix(s)
      r == SubSeq(s, Len(a) + 1, Len(s))
      d == DigitPrefix(r)
  IN  IF r = << >> THEN <<a>>
      ELSE <<a, d>> \o SplitDigitRuns(SubSeq(r, Len(d) + 1, Len(r)))

\* naturalSortKey: each part is kept lower-cased when it is not a number, and is
\* parseInt(part) otherwise.  An element is [num |-> TRUE, s |-> String(number)]
\* or [num |-> FALSE, s |-> text].
KeyElement(part) ==
  IF isNaN(part) THEN [num |-> FALSE, s |-> toLowerCase(part)]
  ELSE [num |-> TRUE, s |-> parseIntStr(part)]

KeyOfParts(parts) == [i \in DOMAIN parts |-> KeyElement(parts[i])]

naturalSortKey(s) == KeyOfParts(SplitDigitRuns(s))

\* Array.prototype.toString of a sort key: the elements' strings joined by ","
KeyToString(key) == JoinWith([i \in DOMAIN key |-> key[i].s], <<",">>)

\* aKey < bKey on two arrays: both are converted to primitives, their strings,
\* and compared as strings.
KeyLess(aKey, bKey) == StrLess(KeyToString(aKey), KeyToString(bKey))

\* The comparator handed to sort (lines 185-189)
CompareKeys(aKey, bKey) ==
  IF KeyLess(aKey, bKey) THEN -1 ELSE IF KeyLess(bKey, aKey) THEN 1 ELSE 0

SortCompare(a, b) == CompareKeys(naturalSortKey(a), naturalSortKey(b))

\* Array.prototype.sort with the comparator: a stable sort (insertion sort gives
\* the same array as any stable sort under a consistent comparator).
RECURSIVE InsertSorted(_, _)
InsertSorted(x, sorted) ==
  IF sorted = << >> THEN <<x>>
  ELSE IF SortCompare(x, Head(sorted)) < 0 THEN <<x>> \o sorted
  ELSE <<Head(sorted)>> \o InsertSorted(x, Tail(sorted))

RECURSIVE SortAudio(_)
SortAudio(names) ==
  IF names = << >> THEN << >>
  ELSE InsertSorted(names[Len(names)], SortAudio(SubSeq(names, 1, Len(names) - 1)))

StrValue(s) == [t |-> "str", s |-> s]
NullValue == [t |-> "null"]
ArrValue(a) == [t |-> "arr", a |-> a]

\* value.replace(/^\[['"]/, "").replace(/['"]\]$/, "")
StripListArtifact(s) ==
  LET a == IF Len(s) >= 2 /\ s[1] = "[" /\ s[2] \in {"'", "\""}
           THEN SubSeq(s, 3, Len(s)) ELSE s
  IN  IF Len(a) >= 2 /\ a[Len(a)] = "]" /\ a[Len(a) - 1] \in {"'", "\""}
      THEN SubSeq(a, 1, Len(a) - 2) ELSE a

\* cleanMetadata: a value is null, a string or an array of values
RECURSIVE cleanMetadata(_)
cleanMetadata(value) ==
  IF value.t = "null" THEN << >>
  ELSE IF value.t = "arr"
    THEN IF Len(value.a) > 0 THEN cleanMetadata(value.a[1]) ELSE << >>
  ELSE LET s0 == value.s
           s1 == IF includes(s0, ",") THEN split(s0, ",")[1] ELSE s0
       IN  trim(StripListArtifact(s1))

InvalidChars == {"<", ">", ":", "\"", "/", "\\", "|", "?", "*"}

RECURSIVE CollapseSpaces(_)
\* replace(/\s+/g, ' ')
CollapseSpaces(s) ==
  IF s = << >> THEN << >>
  ELSE IF IsSpace(Head(s))
    THEN <<" ">> \o CollapseSpaces(trimStart(s))
  ELSE <<Head(s)>> \o CollapseSpaces(Tail(s))

\* cleanFilename
cleanFilename(name) ==
  IF name = << >> THEN << >>
  ELSE trim(CollapseSpaces(SelectSeq(name, LAMBDA c : c \notin InvalidChars)))

\* The own, non-null property data[key] of a parsed record, if any
HasValue(obj, key) == key \in DOMAIN obj /\ obj[key].t # "null"

RECURSIVE FirstPresent(_, _)
FirstPresent(obj, keyNames) ==
  IF keyNames = << >> THEN NullValue
  ELSE IF HasValue(obj, Head(keyNames)) THEN obj[Head(keyNames)]
  ELSE FirstPresent(obj, Tail(keyNames))

\* getMetadataValue: the top level first, then data.metadata.  A record is
\* [top |-> fields, meta |-> fields of data.metadata], each a function from
\* key names to values.
getMetadataValue(data, keyNames) ==
  LET v == FirstPresent(data.top, keyNames) IN
    IF v.t # "null" THEN cleanMetadata(v)
    ELSE cleanMetadata(FirstPresent(data.meta, keyNames))

\* path.extname of a file name
extname(name) ==
  LET dots == {i \in DOMAIN name : name[i] = "."} IN
    IF dots = {} THEN << >>
    ELSE LET i == CHOOSE k \in dots : \A j \in dots : j <= k IN
           IF i = 1 \/ name = <<".", ".">> THEN << >>
           ELSE SubSeq(name, i, Len(name))

RECURSIVE Flatten(_)
Flatten(ss) == IF ss = << >> THEN << >> ELSE Head(ss) \o Flatten(Tail(ss))

RECURSIVE Normalize(_, _)
\* path.normalize on segments: "" and "." are dropped, ".." removes the segment
\* before it (and is kept when there is none: the path leaves the library).
Normalize(done, segs) ==
  IF segs = << >> THEN done
  ELSE LET x == Head(segs) IN
    IF x = << >> \/ x = <<".">> THEN Normalize(done, Tail(segs))
    ELSE IF x = <<".", ".">> /\ done # << >> /\ done[Len(done)] # <<".", ".">>
      THEN Normalize(SubSeq(done, 1, Len(done) - 1), Tail(segs))
    ELSE Normalize(Append(done, x), Tail(segs))

\* path.join(libraryPath, ...parts), relative to libraryPath: every part is
\* split at "/" and the segments are normalized.
pathJoin(base, parts) ==
  Normalize(<< >>, base \o Flatten([i \in DOMAIN parts |-> split(parts[i], "/")]))

(***************************************************************************)
(* The filesystem: files is a function from the paths of the regular files *)
(* to their contents, dirs the set of the directories.  A content is       *)
(* [id, size, json]: id tells the files apart (a rename keeps it), json is *)
(* what JSON.parse makes of the bytes, by kind: "invalid" (it throws),     *)
(* "null", or "object" with top, the fields of the object, meta, the       *)
(* fields of its .metadata, and duration.                                  *)
(***************************************************************************)
DotDot == <<".", ".">>
MetadataName == <<"m","e","t","a","d","a","t","a",".","j","s","o","n">>
UnknownAuthor == <<"U","n","k","n","o","w","n"," ","A","u","t","h","o","r">>
UnknownTitle == <<"U","n","k","n","o","w","n"," ","T","i","t","l","e">>
UnknownNarrator == <<"U","n","k","n","o","w","n"," ","N","a","r","r","a","t","o","r">>

IsPrefix(d, p) == Len(d) <= Len(p) /\ SubSeq(p, 1, Len(d)) = d
dirname(p) == SubSeq(p, 1, Len(p) - 1)
basename(p) == p[Len(p)]

Exists(F, D, p) == p \in DOMAIN F \/ p \in D

Children(F, D, d) ==
  {p \in (DOMAIN F) \cup D : Len(p) = Len(d) + 1 /\ dirname(p) = d /\ basename(p) # DotDot}

RECURSIVE SortNames(_)
\* A set of names as a sequence, in code-unit order: the order readdir is taken
\* to list a directory in.
SortNames(S) ==
  IF S = {} THEN << >>
  ELSE LET m == CHOOSE x \in S : \A y \in S : y = x \/ StrLess(x, y)
       IN  <<m>> \o SortNames(S \ {m})

\* fs.readdir(d): the names of the entries of directory d
readdir(F, D, d) == SortNames({basename(p) : p \in Children(F, D, d)})

RECURSIVE findMetadataFiles(_, _, _)
\* findMetadataFiles: depth first, a directory's subtree where its entry stands
findMetadataFiles(F, D, dir) ==
  LET entries == readdir(F, D, dir)
      visit(name) ==
        LET fullPath == Append(dir, name) IN
          IF fullPath \in D THEN findMetadataFiles(F, D, fullPath)
          ELSE IF name = MetadataName THEN <<fullPath>>
          ELSE << >>
  IN  Flatten([i \in DOMAIN entries |-> visit(entries[i])])

\* getFileSize: stat's size (a directory's is DirSize), 0 when stat fails
DirSize == 1
getFileSize(F, D, p) ==
  IF p \in DOMAIN F THEN F[p].size ELSE IF p \in D THEN DirSize ELSE 0

(***************************************************************************)
(* POST /api/scan: one item                                                *)
(***************************************************************************)
AudioExtensions ==
  {<<".","m","p","3">>, <<".","m","4","b">>, <<".","m","4","a">>, <<".","f","l","a","c">>, <<".","o","g","g">>, <<".","o","p","u","s">>, <<".","a","a","c">>}

OrDefault(s, d) == IF s = << >> THEN d ELSE s

\* Lines 134-157: the series title and the book number of a series field, and
\* whether the item is counted as a standalone one
\* Lines 143-144
DottedNumber(nParts) == padStart2(nParts[1]) \o <<".">> \o nParts[2]

\* Lines 142-149: the book number of the raw number
BookNumber(rawNum) ==
  IF includes(rawNum, ".") THEN DottedNumber(split(rawNum, "."))
  ELSE IF ~isNaN(rawNum) THEN padStart2(rawNum)
  ELSE rawNum

\* Lines 139-141, 150
NumberedSeries(parts) ==
  [seriesTitle |-> cleanFilename(parts[1]), bookNumber |-> BookNumber(trim(parts[2])),
   standalone |-> FALSE]

ParseSeries(seriesField) ==
  IF seriesField = << >>
    THEN [seriesTitle |-> << >>, bookNumber |-> << >>, standalone |-> TRUE]
  ELSE IF includes(seriesField, "#") THEN NumberedSeries(split(seriesField, "#"))
  ELSE [seriesTitle |-> cleanFilename(seriesField), bookNumber |-> << >>,
        standalone |-> FALSE]

\* Lines 164-171: the target directory
TargetPath(cfg, cleanAuthor, seriesTitle, bookNumber, cleanTitle) ==
  IF cfg.folderFormat = "author-series-book" /\ seriesTitle # << >>
    THEN LET folderLabel == IF bookNumber # << >> THEN bookNumber \o <<" ">> \o cleanTitle
                            ELSE cleanTitle
         IN  pathJoin(<< >>, <<cleanAuthor, seriesTitle, folderLabel>>)
  ELSE pathJoin(<< >>, <<cleanAuthor, cleanTitle>>)

IsAudio(f) == toLowerCase(extname(f)) \in AudioExtensions

\* Lines 183-189: the audio files of the listing, sorted
AudioFiles(allFiles) == SortAudio(SelectSeq(allFiles, IsAudio))

\* ' - ' + String(i + 1).padStart(2, '0') when there are several audio files
TrackSuffix(numAudio, i) ==
  IF numAudio > 1 THEN <<" ", "-", " ">> \o padStart2(IntToStr(i)) ELSE << >>

\* Lines 195-211: the new name of the audio file at position i (1-based)
NewAudioName(cfg, cleanAuthor, seriesTitle, bookNumber, cleanTitle, audioFile, numAudio, i) ==
  LET ext == extname(audioFile)
      nameParts == <<cleanAuthor>>
                   \o (IF seriesTitle # << >>
                       THEN <<trim(seriesTitle \o <<" ">> \o bookNumber)>> ELSE << >>)
                   \o <<cleanTitle>>
      baseName == JoinWith(SelectSeq(nameParts, LAMBDA p : p # << >>), <<" ", "-", " ">>)
  IN  IF cfg.fileFormat = "full-details" THEN baseName \o TrackSuffix(numAudio, i) \o ext
      ELSE IF cfg.fileFormat = "title-only" THEN cleanTitle \o TrackSuffix(numAudio, i) \o ext
      ELSE audioFile

\* Lines 191-231: the audio files in sorted order, then the other entries
BuildMovePlan(cfg, cleanAuthor, seriesTitle, bookNumber, cleanTitle, bookDir, audioFiles, others) ==
      [i \in DOMAIN audioFiles |->
         [oldName |-> audioFiles[i],
          newName |-> cleanFilename(NewAudioName(cfg, cleanAuthor, seriesTitle, bookNumber,
                                                 cleanTitle, audioFiles[i],
                                                 Len(audioFiles), i)),
          oldPath |-> Append(bookDir, audioFiles[i]),
          type |-> "audio"]]
      \o [i \in DOMAIN others |->
            [oldName |-> others[i], newName |-> others[i],
             oldPath |-> Append(bookDir, others[i]), type |-> "other"]]

OtherFiles(allFiles, audioFiles) ==
  SelectSeq(allFiles, LAMBDA f : f \notin Range(audioFiles))

WithAudio(cfg, cleanAuthor, seriesTitle, bookNumber, cleanTitle, bookDir, allFiles, audioFiles) ==
  BuildMovePlan(cfg, cleanAuthor, seriesTitle, bookNumber, cleanTitle, bookDir, audioFiles,
                OtherFiles(allFiles, audioFiles))

MovePlan(cfg, cleanAuthor, seriesTitle, bookNumber, cleanTitle, bookDir, allFiles) ==
  WithAudio(cfg, cleanAuthor, seriesTitle, bookNumber, cleanTitle, bookDir, allFiles,
            AudioFiles(allFiles))

\* Lines 233-235 without the comparison of the names
DirectoryChanged(bookDir, targetPath, movePlan) == bookDir # targetPath

\* Lines 233-235
hasChanges(bookDir, targetPath, movePlan) ==
  bookDir # targetPath \/ \E i \in DOMAIN movePlan : movePlan[i].oldName # movePlan[i].newName

\* Lines 125-129: the fields read from the parsed content
ItemFields(data) ==
  [author |-> OrDefault(getMetadataValue(data, <<"authorName", "author", "authors", "bookAuthor">>),
                        UnknownAuthor),
   bookTitle |-> OrDefault(getMetadataValue(data, <<"title", "bookTitle">>), UnknownTitle),
   narrator |-> OrDefault(getMetadataValue(data, <<"narratorName", "narrator", "narrators">>),
                          UnknownNarrator),
   seriesField |-> getMetadataValue(data, <<"seriesName", "series">>),
   duration |-> data.duration]

\* Lines 233-235 on the planned item
Planned(fld, ps, bookDir, allFiles, targetPath, movePlan) ==
  [author |-> fld.author, bookTitle |-> fld.bookTitle, narrator |-> fld.narrator,
   seriesField |-> fld.seriesField, seriesTitle |-> ps.seriesTitle,
   bookNumber |-> ps.bookNumber, standalone |-> ps.standalone,
   duration |-> fld.duration, targetPath |-> targetPath, bookDir |-> bookDir,
   allFiles |-> allFiles, movePlan |-> movePlan,
   hasChanges |-> hasChanges(bookDir, targetPath, movePlan)]

\* Lines 161-231 with the cleaned author and title
Layout(cfg, fld, ps, cleanAuthor, cleanTitle, bookDir, allFiles) ==
  Planned(fld, ps, bookDir, allFiles,
          TargetPath(cfg, cleanAuthor, ps.seriesTitle, ps.bookNumber, cleanTitle),
          MovePlan(cfg, cleanAuthor, ps.seriesTitle, ps.bookNumber, cleanTitle, bookDir,
                   allFiles))

LocalsOf(cfg, fld, ps, bookDir, allFiles) ==
  Layout(cfg, fld, ps, cleanFilename(fld.author), cleanFilename(fld.bookTitle), bookDir,
         allFiles)

FieldLocals(cfg, fld, bookDir, allFiles) ==
  LocalsOf(cfg, fld, ParseSeries(fld.seriesField), bookDir, allFiles)

\* The local variables of one iteration of the loop of lines 118-251 that runs
\* to its end, for the metadata file at metaPath with parsed content data
ItemLocals(F, D, cfg, metaPath, data) ==
  FieldLocals(cfg, ItemFields(data), dirname(metaPath), readdir(F, D, dirname(metaPath)))

\* Lines 237-247: the plan pushed for an item with changes
PlanOf(loc) ==
  [title |-> loc.bookTitle, author |-> loc.author,
   oldPath |-> loc.bookDir, newPath |-> loc.targetPath,
   movePlan |-> loc.movePlan, bookDir |-> loc.bookDir, targetDir |-> loc.targetPath]

RECURSIVE SumSizes(_, _, _, _)
SumSizes(F, D, bookDir, names) ==
  IF names = << >> THEN 0
  ELSE getFileSize(F, D, Append(bookDir, Head(names))) + SumSizes(F, D, bookDir, Tail(names))

EmptyStats ==
  [books |-> 0, authors |-> {}, narrators |-> {}, series |-> {},
   totalSize |-> 0, totalDuration |-> 0, standaloneCount |-> 0]

\* The statistics and the plans with the item of locals loc folded in; item
\* holds the locals of the iteration when it ran to its end
Accumulate(acc, F, D, loc) ==
  [item |-> <<loc>>,
   stats |->
     [books |-> acc.stats.books + 1,
      authors |-> acc.stats.authors \cup {loc.author},
      narrators |-> IF loc.narrator # UnknownNarrator
                    THEN acc.stats.narrators \cup {loc.narrator} ELSE acc.stats.narrators,
      series |-> IF loc.standalone THEN acc.stats.series
                 ELSE acc.stats.series \cup {loc.seriesTitle},
      totalSize |-> acc.stats.totalSize + SumSizes(F, D, loc.bookDir, loc.allFiles),
      totalDuration |-> acc.stats.totalDuration + loc.duration,
      standaloneCount |-> IF loc.standalone THEN acc.stats.standaloneCount + 1
                          ELSE acc.stats.standaloneCount],
   plannedMoves |-> IF loc.hasChanges THEN Append(acc.plannedMoves, PlanOf(loc))
                    ELSE acc.plannedMoves]

\* One iteration of the loop (lines 118-251) on the accumulated
\* [stats, plannedMoves]: JSON.parse throws on invalid content before anything
\* is counted; reading a property of null throws after stats.books++.
ProcessItem(acc, F, D, cfg, metaPath) ==
  IF F[metaPath].json.kind = "invalid" THEN [acc EXCEPT !.item = << >>]
  ELSE IF F[metaPath].json.kind = "null"
    THEN [acc EXCEPT !.stats.books = @ + 1, !.item = << >>]
  ELSE Accumulate(acc, F, D, ItemLocals(F, D, cfg, metaPath, F[metaPath].json))

RECURSIVE ScanLoop(_, _, _, _, _)
ScanLoop(acc, F, D, cfg, metadataFiles) ==
  IF metadataFiles = << >> THEN acc
  ELSE ScanLoop(ProcessItem(acc, F, D, cfg, Head(metadataFiles)), F, D, cfg,
                Tail(metadataFiles))

\* The response of POST /api/scan on the library as it stands
ScanResponse(F, D, cfg) ==
  ScanLoop([stats |-> EmptyStats, plannedMoves |-> << >>, item |-> << >>], F, D, cfg,
           findMetadataFiles(F, D, << >>))

(***************************************************************************)
(* Filesystem calls of POST /api/execute                                   *)
(***************************************************************************)
Prefixes(p) == {SubSeq(p, 1, k) : k \in 0..Len(p)}

\* fs.mkdir(p, {recursive: true}): fails when p or a directory above it is a
\* regular file; otherwise every missing directory of the path is created.
MkdirOk(F, D, p) == \A q \in Prefixes(p) : q \notin DOMAIN F
MkdirDirs(F, D, p) == D \cup Prefixes(p)

\* An fs.access that finds nothing: the file-move loop without the check of
\* lines 301-307
AccessNothing(F, D, p) == FALSE

\* fs.access(p): resolves iff p exists
AccessOk(F, D, p) == Exists(F, D, p)

Rebase(p, old, new) == new \o SubSeq(p, Len(old) + 1, Len(p))

\* fs.rename(old, new) (rename(2)): a regular file replaces a regular file that
\* is at new; a directory moves with everything below it.
RenameOk(F, D, old, new) ==
  /\ Exists(F, D, old)
  /\ new # << >>
  /\ dirname(new) \in D
  /\ old \in DOMAIN F => new \notin D
  /\ old \in D => /\ new \notin DOMAIN F
                  /\ new \in D => Children(F, D, new) = {}
                  /\ ~IsPrefix(old, new) \/ old = new

RenameFiles(F, D, old, new) ==
  IF old = new THEN F
  ELSE LET moved == {p \in DOMAIN F : IsPrefix(old, p)}
           kept == {p \in DOMAIN F : ~IsPrefix(old, p) /\ p # new}
           dest == {Rebase(p, old, new) : p \in moved}
       IN  [q \in kept \cup dest |->
              IF q \in dest THEN F[CHOOSE p \in moved : Rebase(p, old, new) = q] ELSE F[q]]

RenameDirs(F, D, old, new) ==
  IF old = new THEN D
  ELSE {d \in D : ~IsPrefix(old, d)} \cup {Rebase(d, old, new) : d \in {e \in D : IsPrefix(old, e)}}

\* fs.rmdir(d): removes an empty directory and fails on anything else
RmdirOk(F, D, d) == d \in D /\ Children(F, D, d) = {}

(***************************************************************************)
(* State                                                                   *)
(***************************************************************************)
VARIABLES
  files,    \* the regular files of the library: path -> content
  dirs,     \* the directories of the library
  scan,     \* the running POST /api/scan: its local variables
  preview,  \* the client's copy of the last scan: [cfg, plannedMoves]
  exec      \* the POST /api/execute calls: call -> its local variables

vars == <<files, dirs, scan, preview, exec>>

Calls == {1, 2}

FolderFormats == {"author-series-book", "author-book"}
FileFormats == {"full-details", "title-only", "keep-original"}
Configs == [folderFormat : FolderFormats, fileFormat : FileFormats]

IdleScan ==
  [pc |-> "idle", cfg |-> [folderFormat |-> "author-book", fileFormat |-> "keep-original"],
   metadataFiles |-> << >>, i |-> 0, stats |-> EmptyStats, plannedMoves |-> << >>,
   item |-> << >>]

EmptyResults == [applied |-> 0, errors |-> 0, collisions |-> << >>]

IdleExec ==
  [pc |-> "idle", plannedMoves |-> << >>, b |-> 0, m |-> 0, results |-> EmptyResults,
   scanned |-> FALSE]

(***************************************************************************)
(* POST /api/execute (lines 272-338), one action per awaited filesystem    *)
(* call together with the synchronous code that follows it                 *)
(***************************************************************************)
Running(c) == exec[c].pc \notin {"idle", "done"}

CurBook(e) == e.plannedMoves[e.b]
CurMove(e) == CurBook(e).movePlan[e.m]

\* Line 294: the path a file move lands on
NewPathOf(book, fileMove) == pathJoin(book.targetDir, <<fileMove.newName>>)

RECURSIVE SkipSamePath(_, _)
\* Lines 292-299: the first file move from index m on whose new path is not its
\* old path (the others are skipped by continue)
SkipSamePath(book, m) ==
  IF m > Len(book.movePlan) THEN m
  ELSE IF book.movePlan[m].oldPath = NewPathOf(book, book.movePlan[m])
    THEN SkipSamePath(book, m + 1)
  ELSE m

\* The file-move loop from index m on: up to the next fs.access, or past the
\* loop to fs.readdir
ContinueMoves(e, m) ==
  LET k == SkipSamePath(CurBook(e), m) IN
    IF k <= Len(CurBook(e).movePlan) THEN [e EXCEPT !.pc = "access", !.m = k]
    ELSE [e EXCEPT !.pc = "readdir", !.m = k]

\* The end of the outer loop body: the next book, or res.json(results)
NextBook(e) ==
  IF e.b < Len(e.plannedMoves) THEN [e EXCEPT !.pc = "mkdir", !.b = e.b + 1, !.m = 0]
  ELSE [e EXCEPT !.pc = "done"]

RECURSIVE SubList(_, _, _)
\* The plans of list whose indices are in keep, in the list's order
SubList(list, keep, i) ==
  IF i > Len(list) THEN << >>
  ELSE (IF i \in keep THEN <<list[i]>> ELSE << >>) \o SubList(list, keep, i + 1)

\* The handler's local variables when a request with the plans planned arrives
\* (lines 273-283); scanned tells that planned is what a scan of the library
\* as it stands returns under the preview's configuration.
Received(planned) ==
  [IdleExec EXCEPT
     !.pc = IF planned = << >> THEN "done" ELSE "mkdir",
     !.plannedMoves = planned, !.b = 1,
     !.scanned = planned = ScanResponse(files, dirs, preview.cfg).plannedMoves]

\* The request arrives: the client sends the plans it selected from its preview
ExecReceive(c) ==
  /\ exec[c].pc = "idle"
  /\ \E keep \in SUBSET (DOMAIN preview.plannedMoves) :
       exec' = [exec EXCEPT ![c] = Received(SubList(preview.plannedMoves, keep, 1))]
  /\ UNCHANGED <<files, dirs, scan, preview>>

\* The client sends the request it was answered once more
ExecAgain(c) ==
  /\ exec[c].pc = "done"
  /\ \A d \in Calls : ~Running(d)
  /\ exec' = [exec EXCEPT ![c] = Received(exec[c].plannedMoves)]
  /\ UNCHANGED <<files, dirs, scan, preview>>

\* Line 289 without the try of line 286: a failing fs.mkdir ends the call
MkdirAborts(c) ==
  LET e == exec[c] IN
  /\ e.pc = "mkdir"
  /\ IF MkdirOk(files, dirs, CurBook(e).targetDir)
       THEN /\ dirs' = MkdirDirs(files, dirs, CurBook(e).targetDir)
            /\ exec' = [exec EXCEPT ![c] = ContinueMoves(e, 1)]
       ELSE /\ dirs' = dirs
            /\ exec' = [exec EXCEPT ![c] = [e EXCEPT !.results.errors = @ + 1, !.pc = "done"]]
  /\ UNCHANGED <<files, scan, preview>>

\* Line 289: await fs.mkdir(book.targetDir, {recursive: true})
ExecMkdir(c) ==
  LET e == exec[c] IN
  /\ e.pc = "mkdir"
  /\ IF MkdirOk(files, dirs, CurBook(e).targetDir)
       THEN /\ dirs' = MkdirDirs(files, dirs, CurBook(e).targetDir)
            /\ exec' = [exec EXCEPT ![c] = ContinueMoves(e, 1)]
       ELSE \* caught at line 327
            /\ dirs' = dirs
            /\ exec' = [exec EXCEPT ![c] = NextBook([e EXCEPT !.results.errors = @ + 1])]
  /\ UNCHANGED <<files, scan, preview>>

\* The file-move loop without the continue of line 306: an occupied target ends
\* the loop after its name is recorded
AccessBreaks(c) ==
  LET e == exec[c] IN
  /\ e.pc = "access"
  /\ IF AccessOk(files, dirs, NewPathOf(CurBook(e), CurMove(e)))
       THEN exec' = [exec EXCEPT ![c] =
                       [e EXCEPT !.results.collisions = Append(@, CurMove(e).newName),
                                 !.pc = "readdir", !.m = Len(CurBook(e).movePlan) + 1]]
       ELSE exec' = [exec EXCEPT ![c].pc = "rename"]
  /\ UNCHANGED <<files, dirs, scan, preview>>

\* Lines 301-307: await fs.access(newPath)
ExecAccess(c) ==
  LET e == exec[c] IN
  /\ e.pc = "access"
  /\ IF AccessOk(files, dirs, NewPathOf(CurBook(e), CurMove(e)))
       THEN exec' = [exec EXCEPT ![c] =
                       ContinueMoves([e EXCEPT !.results.collisions =
                                                  Append(@, CurMove(e).newName)],
                                     e.m + 1)]
       ELSE exec' = [exec EXCEPT ![c].pc = "rename"]
  /\ UNCHANGED <<files, dirs, scan, preview>>

\* Line 309: await fs.rename(fileMove.oldPath, newPath)
ExecRename(c) ==
  LET e == exec[c]
      old == CurMove(e).oldPath
      new == NewPathOf(CurBook(e), CurMove(e))
  IN
  /\ e.pc = "rename"
  /\ IF RenameOk(files, dirs, old, new)
       THEN /\ files' = RenameFiles(files, dirs, old, new)
            /\ dirs' = RenameDirs(files, dirs, old, new)
            /\ exec' = [exec EXCEPT ![c] = ContinueMoves(e, e.m + 1)]
       ELSE \* caught at line 310
            /\ UNCHANGED <<files, dirs>>
            /\ exec' = [exec EXCEPT ![c] =
                          ContinueMoves([e EXCEPT !.results.errors = @ + 1], e.m + 1)]
  /\ UNCHANGED <<scan, preview>>

\* Lines 316-324 as fs.rm(book.bookDir, {recursive: true}): the source
\* directory goes with whatever it holds
RemoveTree(c) ==
  LET e == exec[c]
      d == CurBook(e).bookDir
  IN
  /\ e.pc = "readdir"
  /\ files' = [p \in {q \in DOMAIN files : ~IsPrefix(d, q)} |-> files[p]]
  /\ dirs' = {q \in dirs : ~IsPrefix(d, q) \/ q = << >>}
  /\ exec' = [exec EXCEPT ![c] = NextBook([e EXCEPT !.results.applied = @ + 1])]
  /\ UNCHANGED <<scan, preview>>

\* Lines 317-319: await fs.readdir(book.bookDir)
ExecReaddir(c) ==
  LET e == exec[c] IN
  /\ e.pc = "readdir"
  /\ IF CurBook(e).bookDir \in dirs /\ readdir(files, dirs, CurBook(e).bookDir) = << >>
       THEN exec' = [exec EXCEPT ![c].pc = "rmdir"]
       ELSE \* entries remain, or readdir threw (line 322)
            exec' = [exec EXCEPT ![c] = NextBook([e EXCEPT !.results.applied = @ + 1])]
  /\ UNCHANGED <<files, dirs, scan, preview>>

\* Line 320: await fs.rmdir(book.bookDir)
ExecRmdir(c) ==
  LET e == exec[c] IN
  /\ e.pc = "rmdir"
  /\ dirs' = IF RmdirOk(files, dirs, CurBook(e).bookDir) THEN dirs \ {CurBook(e).bookDir}
             ELSE dirs
  /\ exec' = [exec EXCEPT ![c] = NextBook([e EXCEPT !.results.applied = @ + 1])]
  /\ UNCHANGED <<files, scan, preview>>

\* The client scans the library (POST /api/scan, start to response) and keeps
\* the planned moves it is shown
Preview ==
  /\ \A c \in Calls : exec[c].pc = "idle"
  /\ \E cfg \in Configs :
       preview' = [cfg |-> cfg, plannedMoves |-> ScanResponse(files, dirs, cfg).plannedMoves]
  /\ UNCHANGED <<files, dirs, scan, exec>>

(***************************************************************************)
(* POST /api/scan (lines 90-270), one action per iteration of its loop     *)
(***************************************************************************)
\* Lines 97-115: fs.access(libraryPath), findMetadataFiles, the empty
\* statistics; with no metadata file the response follows at once.
ScanStart ==
  /\ scan.pc \in {"idle", "done"}
  /\ \E cfg \in Configs :
       LET found == findMetadataFiles(files, dirs, << >>) IN
         scan' = [pc |-> IF found = << >> THEN "done" ELSE "loop", cfg |-> cfg,
                  metadataFiles |-> found, i |-> 1, stats |-> EmptyStats,
                  plannedMoves |-> << >>, item |-> << >>]
  /\ UNCHANGED <<files, dirs, preview, exec>>

\* Lines 118-251 for metadataFiles[i]; after the last one, res.json (line 253)
Iterated(sc, acc) ==
  [sc EXCEPT !.stats = acc.stats, !.plannedMoves = acc.plannedMoves,
             !.item = acc.item, !.i = sc.i + 1,
             !.pc = IF sc.i = Len(sc.metadataFiles) THEN "done" ELSE "loop"]

ScanItem ==
  /\ scan.pc = "loop"
  /\ scan' = Iterated(scan, ProcessItem([stats |-> scan.stats,
                                         plannedMoves |-> scan.plannedMoves,
                                         item |-> scan.item],
                                        files, dirs, scan.cfg, scan.metadataFiles[scan.i]))
  /\ UNCHANGED <<files, dirs, preview, exec>>

(***************************************************************************)
(* Libraries                                                               *)
(***************************************************************************)
EmptyObj == [k \in {} |-> NullValue]

Record(top) == [kind |-> "object", top |-> top, meta |-> EmptyObj, duration |-> 0]
NotJson == [kind |-> "invalid", top |-> EmptyObj, meta |-> EmptyObj, duration |-> 0]
JsonNull == [kind |-> "null", top |-> EmptyObj, meta |-> EmptyObj, duration |-> 0]

File(path, size) == [path |-> path, size |-> size, json |-> NotJson]
MetaFile(dir, json) == [path |-> Append(dir, MetadataName), size |-> 1, json |-> json]

\* The filesystem holding the given files: a file's id is the path it starts at
Library(entries) ==
  [files |-> [p \in {e.path : e \in entries} |->
                LET e == CHOOSE x \in entries : x.path = p IN
                  [id |-> p, size |-> e.size, json |-> e.json]],
   dirs |-> UNION {Prefixes(dirname(e.path)) : e \in entries} \cup {<< >>}]

Mp3 == <<".","m","p","3">>
Track(k) == IntToStr(k) \o Mp3

\* An item directory: its metadata.json and the named files
Item(dir, json, names) ==
  {MetaFile(dir, json)} \cup {File(Append(dir, n), 2) : n \in names}

\* The most audio tracks an item of the libraries holds
MaxAudio == 10

DirX == <<<<"x">>>>
DirY == <<<<"y">>>>
DirW == <<<<"w">>>>
DirSub == <<<<"x">>, <<"s","u","b">>>>
DirAT == <<<<"A">>, <<"T">>>>
DirBU == <<<<"B">>, <<"U">>>>

DataAT == Record([author |-> StrValue(<<"A">>), title |-> StrValue(<<"T">>),
                  series |-> StrValue(<<"S"," ","#","1">>)])
DataATalone == Record([author |-> StrValue(<<"A">>), title |-> StrValue(<<"T">>)])
DataAU == Record([author |-> StrValue(<<"A">>), title |-> StrValue(<<"U">>)])
DataBU == Record([author |-> StrValue(<<"B">>), title |-> StrValue(<<"U">>)])

\* An unorganized item in x with n tracks
XItem(n) == Item(DirX, DataAT, {Track(k) : k \in 1..n})

\* A second item: a duplicate of the first, another book, or a book in a
\* subdirectory of the first
DataCV == Record([author |-> StrValue(<<"C">>), title |-> StrValue(<<"V">>)])

YPool == {{}, Item(DirY, DataAT, {Track(1)}), Item(DirY, DataBU, {Track(1)}),
          Item(DirW, DataBU, {Track(1)}), Item(DirSub, DataAU, {Track(1)}),
          Item(DirW, DataBU, {Track(1)}) \cup Item(DirY, DataCV, {Track(1)})}

\* What is already where author A's book T belongs: nothing, the organized
\* book, a lone audio file, or a regular file named A
PPool == {{}, Item(DirAT, DataATalone, {<<"T">> \o Mp3}),
          {File(Append(DirAT, <<"T">> \o Mp3), 2)},
          {File(<<<<"A">>>>, 1)}}

\* The one-track item with whatever else, and the items of 2 and MaxAudio tracks
ExecLibraries ==
  {Library(XItem(1) \cup y \cup p) : y \in YPool, p \in PPool}
    \cup {Library(XItem(n)) : n \in {2, MaxAudio}}

NoPreview == [cfg |-> IdleScan.cfg, plannedMoves |-> << >>]

(***************************************************************************)
(* Specifications                                                          *)
(***************************************************************************)
\* One client, one request at a time: scans and executes in any order
Init ==
  /\ \E lib \in ExecLibraries : files = lib.files /\ dirs = lib.dirs
  /\ scan = IdleScan
  /\ preview = NoPreview
  /\ exec = [c \in Calls |-> IdleExec]

Next ==
  \/ Preview
  \/ ExecReceive(1)
  \/ ExecAgain(1)
  \/ ExecMkdir(1)
  \/ ExecAccess(1)
  \/ ExecRename(1)
  \/ ExecReaddir(1)
  \/ ExecRmdir(1)

Spec == Init /\ [][Next]_vars

\* The steps of call c
ExecStep(c) ==
  \/ ExecMkdir(c)
  \/ ExecAccess(c)
  \/ ExecRename(c)
  \/ ExecReaddir(c)
  \/ ExecRmdir(c)

\* Node settles every awaited filesystem call: a running handler goes on
LiveSpec == Spec /\ WF_vars(ExecStep(1))

\* Two requests in flight at once, on libraries where two books can meet
ConcLibraries ==
  {Library(XItem(1) \cup y \cup p) :
     y \in {Item(DirY, DataAT, {Track(1)}), Item(DirY, DataBU, {Track(1)})},
     p \in {{}, {File(Append(DirAT, <<"T">> \o Mp3), 2)}}}

InitConc ==
  /\ \E lib \in ConcLibraries : files = lib.files /\ dirs = lib.dirs
  /\ scan = IdleScan
  /\ preview = NoPreview
  /\ exec = [c \in Calls |-> IdleExec]

NextConc ==
  \/ Preview
  \/ \E c \in Calls : ExecReceive(c)
  \/ \E c \in Calls : ExecMkdir(c)
  \/ \E c \in Calls : ExecAccess(c)
  \/ \E c \in Calls : ExecRename(c)
  \/ \E c \in Calls : ExecReaddir(c)
  \/ \E c \in Calls : ExecRmdir(c)

SpecConc == InitConc /\ [][NextConc]_vars

\* The scans of POST /api/scan on a library nothing else touches
Series(s) ==
  Record([author |-> StrValue(<<"A">>), title |-> StrValue(<<"T">>), series |-> StrValue(s)])

Mistborn == <<"M","i","s","t","b","o","r","n">>

\* Series fields: a plain name, numbered ones, and ones with more than one
\* '#' or '.', with nothing after or before the '#', and of invalid characters
SeriesFields ==
  {<<"S">>, <<"S"," ","#","1">>, <<"S"," ","#","3",".","5">>, Mistborn \o <<" ","#","1">>,
   Mistborn \o <<" ","#","3",".","5">>, <<"S"," ","#","O","n","e">>,
   <<"S"," ","#","1",".","2",".","3">>, <<"S"," ","#","1"," ","#","2">>,
   <<"S"," ","#">>, <<"#","1">>, <<"?">>}

TrackN(n) == <<"t","r","a","c","k">> \o IntToStr(n) \o Mp3
Tracks == {TrackN(2), TrackN(10), TrackN(1)}

ScanLibraries ==
  {Library(Item(DirX, Series(s), {Track(1)})) : s \in SeriesFields}
    \cup {Library(Item(DirX, DataATalone, {Track(1)})),
          Library(Item(DirX, DataAT, Tracks)),
          Library(Item(DirX, DataAT, {Track(2), Track(1)})),
          Library(Item(DirAT, DataATalone, {<<"T">> \o Mp3})),
          Library(Item(DirAT, DataATalone, {Track(1)})),
          Library(Item(DirAT, DataATalone, {<<"T">> \o Mp3}) \cup Item(DirX, DataBU, {Track(1)})),
          Library(Item(DirX, NotJson, {Track(1)}) \cup Item(DirY, DataBU, {Track(1)})),
          Library(Item(DirX, JsonNull, {Track(1)}) \cup Item(DirY, DataBU, {Track(1)})),
          Library(Item(DirAT, DataATalone, {<<"T">> \o Mp3})
                    \cup Item(DirBU, DataBU, {Track(1)})),
          Library({File(Append(DirX, Track(1)), 2)})}

InitScan ==
  /\ \E lib \in ScanLibraries : files = lib.files /\ dirs = lib.dirs
  /\ scan = IdleScan
  /\ preview = NoPreview
  /\ exec = [c \in Calls |-> IdleExec]

NextScan ==
  \/ ScanStart
  \/ ScanItem

SpecScan == InitScan /\ [][NextScan]_vars

(***************************************************************************)
(* Properties of execute                                                   *)
(***************************************************************************)
IdsOf(F) == {F[p].id : p \in DOMAIN F}
PathsOf(F, id) == {p \in DOMAIN F : F[p].id = id}

\* The call whose fs.rename this step may be, with its two paths
Renaming(c) == exec[c].pc = "rename" /\ exec'[c] # exec[c]
OldPath(c) == CurMove(exec[c]).oldPath
NewPath(c) == NewPathOf(CurBook(exec[c]), CurMove(exec[c]))

\* A file is after the step where it was, or where this step's file move puts
\* it (it, or the directory it is in)
KeptOrMoved(p, q) ==
  \/ q = p
  \/ \E c \in Calls : /\ Renaming(c)
                      /\ IsPrefix(OldPath(c), p)
                      /\ q = Rebase(p, OldPath(c), NewPath(c))

FilesKept ==
  \A p \in DOMAIN files :
    /\ Cardinality(PathsOf(files', files[p].id)) = 1
    /\ \A q \in PathsOf(files', files[p].id) : files'[q] = files[p] /\ KeptOrMoved(p, q)

\* A directory that is gone after the step was moved by this step's rename, or
\* was the book's directory, just listed as empty by readdir and empty still
OnlyEmptyDirsRemoved ==
  \A d \in dirs \ dirs' :
    \/ \E c \in Calls : /\ Renaming(c)
                        /\ IsPrefix(OldPath(c), d)
                        /\ Rebase(d, OldPath(c), NewPath(c)) \in dirs'
    \/ /\ Children(files, dirs, d) = {}
       /\ \E c \in Calls : exec[c].pc = "rmdir" /\ CurBook(exec[c]).bookDir = d

\* C1: an execute call never deletes or overwrites a file: every step leaves
\* every file at exactly one path, its own or the one the file move names, with
\* its content unchanged, and removes no directory but one that readdir has just
\* listed as empty.
C1_NeverDeletes == [][FilesKept /\ OnlyEmptyDirsRemoved]_vars

\* C1 witness: a call has ended with a file moved and the source directory removed
C1_Witness ==
  /\ exec[1].pc = "done"
  /\ DirX \notin dirs
  /\ \E p \in DOMAIN files : files[p].id # p /\ IsPrefix(DirX, files[p].id)

\* The file-move loop goes on with the next file move of the same book
GoesOn(c) ==
  /\ exec'[c].b = exec[c].b
  /\ exec'[c].m = SkipSamePath(CurBook(exec[c]), exec[c].m + 1)
  /\ exec'[c].pc = IF exec'[c].m <= Len(CurBook(exec[c]).movePlan) THEN "access"
                   ELSE "readdir"

\* C2: when fs.access finds the target of a file move occupied, the new name is
\* appended to collisions, nothing in the filesystem changes (the source stays,
\* the file at the target stays), no error is counted and the loop goes on with
\* the book's next file move.
C2_Collision ==
  [][\A c \in Calls :
       (exec[c].pc = "access" /\ exec'[c] # exec[c] /\ Exists(files, dirs, NewPath(c)))
         => /\ exec'[c].results.collisions =
                 Append(exec[c].results.collisions, CurMove(exec[c]).newName)
            /\ exec'[c].results.errors = exec[c].results.errors
            /\ files' = files /\ dirs' = dirs
            /\ GoesOn(c)]_vars

\* C2 witness: a file move of a book collided, its source is where it was, and
\* a later file move of the same book was carried out
C2_Witness ==
  /\ exec[1].pc = "readdir"
  /\ exec[1].results.collisions = << <<"T">> \o Mp3 >>
  /\ Append(DirX, Track(1)) \in DOMAIN files
  /\ PathsOf(files, Append(DirX, MetadataName)) = {Append(DirAT, MetadataName)}

\* The outer loop goes on after the book: the next book, or the response
BookEnded(c) ==
  IF exec[c].b < Len(exec[c].plannedMoves)
    THEN exec'[c].pc = "mkdir" /\ exec'[c].b = exec[c].b + 1
  ELSE exec'[c].pc = "done"

HasEntries(d) == \E p \in DOMAIN files \cup dirs : p # d /\ IsPrefix(d, p)

\* C6: once the file moves of a book are through, its source directory is
\* removed if and only if it has no entry then; a directory with an entry is
\* left with its contents; a removal that fails (the directory cannot be
\* listed) counts no error, and the call goes on with the next book.
C6_SourceCleanup ==
  [][\A c \in Calls :
       LET d == CurBook(exec[c]).bookDir IN
         /\ (exec[c].pc = "readdir" /\ exec'[c] # exec[c])
              => /\ files' = files /\ dirs' = dirs
                 /\ exec'[c].results.errors = exec[c].results.errors
                 /\ IF d \in dirs /\ ~HasEntries(d)
                      THEN exec'[c].pc = "rmdir" /\ exec'[c].results = exec[c].results
                      ELSE /\ exec'[c].results.applied = exec[c].results.applied + 1
                           /\ BookEnded(c)
         /\ (exec[c].pc = "rmdir" /\ exec'[c] # exec[c])
              => /\ files' = files
                 /\ dirs' = IF d \in dirs /\ ~HasEntries(d) THEN dirs \ {d} ELSE dirs
                 /\ exec'[c].results.errors = exec[c].results.errors
                 /\ exec'[c].results.applied = exec[c].results.applied + 1
                 /\ BookEnded(c)]_vars

\* C6 witness: a call has ended that removed the emptied directory of one book
\* and left the directory of another, which kept a file after a collision
C6_Witness ==
  /\ exec[1].pc = "done"
  /\ Len(exec[1].plannedMoves) = 2
  /\ exec[1].results.applied = 2
  /\ DirX \notin dirs
  /\ DirY \in dirs /\ HasEntries(DirY)

\* C7: a book whose target directory cannot be created counts one error, changes
\* nothing in the filesystem (what earlier books moved stays moved) and the call
\* goes on with the next book; every call ends with its response, in which every
\* book is counted as applied or as an error.
C7_PartialFailure ==
  /\ [][\A c \in Calls :
          (exec[c].pc = "mkdir" /\ exec'[c] # exec[c]
             /\ \E q \in Prefixes(CurBook(exec[c]).targetDir) : q \in DOMAIN files)
            => /\ exec'[c].results =
                    [exec[c].results EXCEPT !.errors = exec[c].results.errors + 1]
               /\ files' = files /\ dirs' = dirs
               /\ BookEnded(c)]_vars
  /\ [](exec[1].pc = "done" =>
          /\ exec[1].results.applied <= Len(exec[1].plannedMoves)
          /\ exec[1].results.applied + exec[1].results.errors >= Len(exec[1].plannedMoves))
  /\ (Running(1) ~> exec[1].pc = "done")

\* C7 witness: a call has ended whose first book was applied and moved its
\* files, whose second book failed at its target directory, and whose third
\* book was applied after that
C7_Witness ==
  /\ exec[1].pc = "done"
  /\ Len(exec[1].plannedMoves) = 3
  /\ exec[1].results.applied = 2
  /\ exec[1].results.errors = 1
  /\ <<<<"A">>>> \in DOMAIN files
  /\ DirW \notin dirs /\ DirY \notin dirs /\ DirX \in dirs

\* C3 (the claim as stated): when a call that was sent all the plans of a scan
\* of the library ends with every book applied, no error and no collision, a
\* scan of the library under the same configuration returns no plan.
C3_FixedPoint ==
  \A c \in Calls :
    (/\ exec[c].pc = "done"
     /\ exec[c].scanned
     /\ exec[c].results.applied = Len(exec[c].plannedMoves)
     /\ exec[c].results.errors = 0
     /\ exec[c].results.collisions = << >>)
      => ScanResponse(files, dirs, preview.cfg).plannedMoves = << >>

\* C5 (the claim as stated): with two calls in flight, no step makes a file
\* disappear (a rename never lands on a file that is there), and a file that is
\* not where its file move puts it is where it was.
C5_Serialized == [][IdsOf(files') = IdsOf(files)]_vars

(***************************************************************************)
(* Properties of scan                                                      *)
(***************************************************************************)
\* The locals of the iteration that has just run to its end
Scanned == scan.item # << >>
Loc == scan.item[1]

AudioMoves(movePlan) == SelectSeq(movePlan, LAMBDA fm : fm.type = "audio")

RECURSIVE ValueOf(_)
\* The integer a run of digits denotes
ValueOf(d) ==
  IF d = << >> THEN 0
  ELSE ValueOf(SubSeq(d, 1, Len(d) - 1)) * 10 + (CodeOf[d[Len(d)]] - CodeOf["0"])

RECURSIVE RunsLess(_, _, _)
\* Natural order on the runs of two names from run k on (runs at even indices
\* are digit runs): digit runs as integers, the others as lower-cased text
RunsLess(ra, rb, k) ==
  IF k > Len(rb) THEN FALSE
  ELSE IF k > Len(ra) THEN TRUE
  ELSE IF k % 2 = 0 /\ ValueOf(ra[k]) # ValueOf(rb[k]) THEN ValueOf(ra[k]) < ValueOf(rb[k])
  ELSE IF k % 2 = 1 /\ toLowerCase(ra[k]) # toLowerCase(rb[k])
    THEN StrLess(toLowerCase(ra[k]), toLowerCase(rb[k]))
  ELSE RunsLess(ra, rb, k + 1)

NaturalLess(a, b) == RunsLess(SplitDigitRuns(a), SplitDigitRuns(b), 1)

\* The position natural order gives a name among names
NaturalRank(name, names) == 1 + Cardinality({n \in names : NaturalLess(n, name)})

NamesOf(moves) == {moves[i].oldName : i \in DOMAIN moves}

\* C4 (the claim as stated): the audio files of an item are planned in natural
\* order (digit runs as integers, the rest case-insensitively), and under
\* title-only with several audio files each gets the number of its position in
\* that order: track1, track2, track10 get 01, 02, 03.
C4_NaturalSort ==
  Scanned =>
    LET audio == AudioMoves(Loc.movePlan) IN
      /\ \A i, j \in DOMAIN audio : i < j => ~NaturalLess(audio[j].oldName, audio[i].oldName)
      /\ (scan.cfg.fileFormat = "title-only" /\ Len(audio) > 1) =>
           \A i \in DOMAIN audio :
             audio[i].newName =
               cleanFilename(Loc.bookTitle)
                 \o TrackSuffix(Len(audio), NaturalRank(audio[i].oldName, NamesOf(audio)))
                 \o extname(audio[i].oldName)

PlansFor(dir) == {i \in DOMAIN scan.plannedMoves : scan.plannedMoves[i].bookDir = dir}

\* C8: the item whose iteration has just ended is in the planned moves, with
\* its file moves, if and only if its directory is not its target directory or
\* one of its file moves renames; every plan in the planned moves is of that kind.
C8_HasChanges ==
  /\ Scanned =>
       /\ (PlansFor(Loc.bookDir) # {}) <=>
            (\/ Loc.bookDir # Loc.targetPath
             \/ \E i \in DOMAIN Loc.movePlan :
                  Loc.movePlan[i].oldName # Loc.movePlan[i].newName)
       /\ \A i \in PlansFor(Loc.bookDir) :
            /\ scan.plannedMoves[i].movePlan = Loc.movePlan
            /\ scan.plannedMoves[i].targetDir = Loc.targetPath
  /\ \A i \in DOMAIN scan.plannedMoves :
       LET plan == scan.plannedMoves[i] IN
         \/ plan.bookDir # plan.targetDir
         \/ \E k \in DOMAIN plan.movePlan : plan.movePlan[k].oldName # plan.movePlan[k].newName

\* C8 witness: a scan under title-only has ended on a library of two items in
\* their target directories; the one whose audio file is not named after the
\* title is the only plan, the one whose names are right is not planned
C8_Witness ==
  /\ scan.pc = "done"
  /\ scan.stats.books = 2
  /\ Len(scan.plannedMoves) = 1
  /\ scan.plannedMoves[1].bookDir = DirBU
  /\ scan.plannedMoves[1].targetDir = DirBU
  /\ Append(DirAT, MetadataName) \in DOMAIN files

\* The book number the claim gives a raw number (numeric read as the code's
\* test reads it)
ClaimedNumber(rawNum) ==
  IF includes(rawNum, ".")
    THEN padStart2(SubSeq(rawNum, 1, IndexOf(rawNum, ".") - 1)) \o <<".">>
           \o SubSeq(rawNum, IndexOf(rawNum, ".") + 1, Len(rawNum))
  ELSE IF ~isNaN(rawNum) THEN padStart2(rawNum)
  ELSE rawNum

\* The series title and book number the claim gives a series field
ClaimedSeries(seriesField) ==
  IF includes(seriesField, "#")
    THEN [seriesTitle |-> cleanFilename(SubSeq(seriesField, 1, IndexOf(seriesField, "#") - 1)),
          bookNumber |-> ClaimedNumber(trim(SubSeq(seriesField, IndexOf(seriesField, "#") + 1,
                                                   Len(seriesField))))]
  ELSE [seriesTitle |-> cleanFilename(seriesField), bookNumber |-> << >>]

\* C9 (the claim as stated): the series field is split once at its first '#',
\* the raw number is everything after it, trimmed; a raw number with a '.' is
\* split at its first '.', the part before padded to two digits and the part
\* after kept; a raw number of digits is padded to two digits; anything else
\* is kept; with no '#' the field is the series title and the number is empty.
C9_SeriesNumber ==
  Scanned =>
    [seriesTitle |-> Loc.seriesTitle, bookNumber |-> Loc.bookNumber]
      = ClaimedSeries(Loc.seriesField)

\* C10 (the claim as stated): an iteration that runs to its end counts the item
\* as standalone if and only if its series title is empty, and an item with a
\* series title adds it to the series and is not counted as standalone.
C10_Standalone ==
  [][(scan.pc = "loop" /\ scan'.item # << >>) =>
       /\ (scan'.item[1].seriesTitle = << >>)
            <=> (scan'.stats.standaloneCount = scan.stats.standaloneCount + 1)
       /\ (scan'.item[1].seriesTitle # << >>) =>
            /\ scan'.item[1].seriesTitle \in scan'.stats.series
            /\ scan'.stats.standaloneCount = scan.stats.standaloneCount]_vars

\* The metadata files whose iteration runs to its end: their content parses to
\* something whose properties can be read
Readable(metadataFiles) ==
  SelectSeq(metadataFiles, LAMBDA metaPath : files[metaPath].json.kind = "object")

\* What the loop accumulates over the items that do not fail
OfReadable(cfg) ==
  ScanLoop([stats |-> EmptyStats, plannedMoves |-> << >>, item |-> << >>], files, dirs, cfg,
           Readable(findMetadataFiles(files, dirs, << >>)))

\* C11 (the claim as stated): when a scan has ended, its statistics and its
\* planned moves are those of the items whose processing did not fail; an item
\* that failed has added nothing.
C11_SkippedWhole ==
  scan.pc = "done" =>
    /\ scan.stats = OfReadable(scan.cfg).stats
    /\ scan.plannedMoves = OfReadable(scan.cfg).plannedMoves

====
